---- MODULE Spec2Model ----
(***************************************************************************)
(* SWIFT code service: the swift_codes table, the CRUD operations on it,   *)
(* the request handlers, the spreadsheet converter and the startup         *)
(* preload.  Strings are sequences of one-character strings, so that       *)
(* stripping, upper-casing, slicing and SQL LIKE matching are computed.    *)
(***************************************************************************)
EXTENDS Naturals, Sequences, FiniteSets, Bags, TLC

VARIABLES
    store,  \* the swift_codes table: the committed rows
    last,   \* the latest request answered, with its response
    sess    \* per database session: where its request stands, and its locals

vars == <<store, last, sess>>

(***************************************************************************)
(* Bounds of the model.                                                    *)
(***************************************************************************)
\* longest spreadsheet (number of data rows) the startup preload reads
MaxRows == 2
\* number of concurrent database sessions (requests or preloading workers)
NumSessions == 2

Sessions == 1..NumSessions

(***************************************************************************)
(* Program constants.                                                      *)
(***************************************************************************)
\* root_code = swift_code[:8]
RootLen == 8
\* constr(min_length=2, max_length=2)
IsoLen == 2

(***************************************************************************)
(* String primitives.                                                      *)
(***************************************************************************)
LowerLetters == <<"a","b","c","d","e","f","g","h","i","j","k","l","m",
                  "n","o","p","q","r","s","t","u","v","w","x","y","z">>
UpperLetters == <<"A","B","C","D","E","F","G","H","I","J","K","L","M",
                  "N","O","P","Q","R","S","T","U","V","W","X","Y","Z">>

\* whitespace characters removed by stripping
Whitespace == {" "}

\* an empty spreadsheet cell: pandas reads it as float('nan'), which is not a
\* string; encoded as a one-element tuple whose element is no character
NaN == <<"float:nan">>

IsStr(v) == v # NaN

\* str(value): the identity on strings, "nan" for float('nan')
PyStr(v) == IF v = NaN THEN <<"n","a","n">> ELSE v

\* the upper-case form of every lower-case letter
UpperOf ==
    [c \in {LowerLetters[i] : i \in 1..Len(LowerLetters)} |->
        UpperLetters[CHOOSE i \in 1..Len(LowerLetters) : LowerLetters[i] = c]]

UpperChar(c) == IF c \in DOMAIN UpperOf THEN UpperOf[c] ELSE c

\* str.upper()
Upper(s) == [i \in 1..Len(s) |-> UpperChar(s[i])]

\* s[:n]
Take(s, n) == IF Len(s) <= n THEN s ELSE SubSeq(s, 1, n)

\* str.endswith(suffix)
EndsWith(s, suffix) ==
    /\ Len(suffix) <= Len(s)
    /\ SubSeq(s, Len(s) - Len(suffix) + 1, Len(s)) = suffix

\* plain prefix test, the meaning the branch rule gives to "starts with"
IsPrefix(p, s) == Len(p) <= Len(s) /\ SubSeq(s, 1, Len(p)) = p

RECURSIVE LStrip(_)
LStrip(s) == IF s # <<>> /\ Head(s) \in Whitespace THEN LStrip(Tail(s)) ELSE s

RECURSIVE RStrip(_)
RStrip(s) ==
    IF s # <<>> /\ s[Len(s)] \in Whitespace
    THEN RStrip(SubSeq(s, 1, Len(s) - 1))
    ELSE s

StripIdentity(s) == s

\* str_strip_whitespace = True: leading and trailing whitespace is removed
\* from every string field on validation
Strip(s) == RStrip(LStrip(s))

\* SQL LIKE: % matches any run of characters, _ matches any one character
RECURSIVE Like(_, _)
Like(s, pat) ==
    IF pat = <<>> THEN s = <<>>
    ELSE IF Head(pat) = "%"
         THEN Like(s, Tail(pat)) \/ (s # <<>> /\ Like(Tail(s), pat))
         ELSE /\ s # <<>>
              /\ (Head(pat) = "_" \/ Head(pat) = Head(s))
              /\ Like(Tail(s), Tail(pat))

\* Column.startswith(other): rendered as  column LIKE other || '%'  with no
\* escaping of the wildcards in other
ColumnStartsWith(col, other) == Like(col, other \o <<"%">>)

(***************************************************************************)
(* The input values of the model.                                          *)
(***************************************************************************)
CodeHQ    == <<"A","A","A","A","U","S","3","3","X","X","X">>
CodeBR    == <<"A","A","A","A","U","S","3","3","0","0","1">>
CodeWild  == <<"A","A","A","A","_","S","3","3","X","X","X">>
CodeShort == <<"A","A","A">>
CodeOther == <<"B","B","B","B","P","L","P","W","X","X","X">>
CodePad   == <<" ">> \o CodeHQ

BankTest  == <<"T","B">>
BankPad   == <<"T","B"," ">>
BankOther == <<"O","B">>
AddrWall  == <<"W","S","t">>
AddrMain  == <<"M","S","t">>

IsoUS     == <<"U","S">>
IsoUsLow  == <<"u","s">>
IsoPL     == <<"P","L">>
IsoPad    == <<" ","U","S">>
IsoUSA    == <<"U","S","A">>

NameUS    == <<"S","T","A","T","E","S">>
NameUsLow == <<"s","t","a","t","e","s">>
NamePL    == <<"P","O","L","A","N","D">>

\* the six columns of SwiftCode other than the surrogate key, which are also
\* the six required fields of SwiftCodeCreate
Fields == {"swiftCode", "bankName", "address", "countryISO2", "countryName",
           "isHeadquarter"}
StringFields == Fields \ {"isHeadquarter"}

Payload(c, b, a, i, n, h) ==
    [swiftCode |-> c, bankName |-> b, address |-> a, countryISO2 |-> i,
     countryName |-> n, isHeadquarter |-> h]

\* request bodies of POST /v1/swift-codes
GoodPayloads ==
    { Payload(CodeHQ,    BankTest,  AddrWall, IsoUS,    NameUS,    TRUE),
      Payload(CodeHQ,    BankOther, AddrMain, IsoUsLow, NameUsLow, FALSE),
      Payload(CodePad,   BankPad,   AddrMain, IsoUS,    NameUS,    TRUE),
      Payload(CodeBR,    BankTest,  AddrMain, IsoUS,    NameUsLow, FALSE),
      Payload(CodeWild,  BankOther, AddrWall, IsoPL,    NamePL,    TRUE),
      Payload(CodeShort, BankTest,  AddrWall, IsoPad,   NameUS,    TRUE),
      Payload(CodeOther, BankOther, AddrMain, IsoPL,    NamePL,    FALSE) }

BadPayloads ==
    { Payload(CodeOther, BankTest, AddrWall, IsoUSA, NameUS, TRUE),
      Payload(CodeBR, BankTest, AddrWall, <<"U">>, NameUS, FALSE),
      [swiftCode |-> CodeBR, address |-> AddrMain, countryISO2 |-> IsoUS,
       countryName |-> NameUS, isHeadquarter |-> FALSE],
      [swiftCode |-> CodeOther, bankName |-> BankTest, address |-> AddrMain,
       countryISO2 |-> IsoPL, countryName |-> NamePL],
      [bankName |-> BankTest, address |-> AddrMain, countryISO2 |-> IsoPL,
       countryName |-> NamePL, isHeadquarter |-> FALSE] }

Payloads == GoodPayloads \cup BadPayloads

\* path parameters of GET and DELETE /v1/swift-codes/{swift_code}
Codes == {CodeHQ, CodeBR, CodeWild, CodeShort, CodeOther, CodePad,
          <<"A","A","A","A","U","S","3","3","x","x","x">>}

\* path parameters of GET /v1/swift-codes/country/{country_iso}
Isos == {IsoUS, IsoUsLow, IsoPL, IsoPad, <<"d","e">>}

(***************************************************************************)
(* schema.py: validation and the response models.                          *)
(***************************************************************************)
ValidationNoLength(p) ==
    \/ ~(Fields \subseteq DOMAIN p)
    \/ \E f \in StringFields : ~IsStr(p[f])

\* SwiftCodeCreate(**payload) raises ValidationError: a required field is
\* missing or no string, or countryISO2, stripped, has not two characters
ValidationError(p) ==
    \/ ~(Fields \subseteq DOMAIN p)
    \/ \E f \in StringFields : ~IsStr(p[f])
    \/ Len(Strip(p.countryISO2)) # IsoLen

\* the validated model, dumped by alias: the keyword arguments of SwiftCode
ModelDump(p) ==
    [swiftCode     |-> Strip(p.swiftCode),
     bankName      |-> Strip(p.bankName),
     address       |-> Strip(p.address),
     countryISO2   |-> Strip(p.countryISO2),
     countryName   |-> Strip(p.countryName),
     isHeadquarter |-> p.isHeadquarter]

\* SwiftCodeBranch(**row.__dict__): the base fields, countryName left out
SwiftCodeBranch(r) ==
    [swiftCode     |-> Strip(r.swiftCode),
     bankName      |-> Strip(r.bankName),
     address       |-> Strip(r.address),
     countryISO2   |-> Strip(r.countryISO2),
     isHeadquarter |-> r.isHeadquarter]

\* SwiftCodeWithBranches(**row.__dict__, branches=...)
SwiftCodeWithBranches(r, branches) ==
    [swiftCode     |-> Strip(r.swiftCode),
     bankName      |-> Strip(r.bankName),
     address       |-> Strip(r.address),
     countryISO2   |-> Strip(r.countryISO2),
     countryName   |-> Strip(r.countryName),
     isHeadquarter |-> r.isHeadquarter,
     branches      |-> branches]

\* CountrySwiftCodesResponse(country_iso2=..., country_name=..., swift_codes=...)
CountrySwiftCodesResponse(iso, name, codes) ==
    [countryISO2 |-> Strip(iso), countryName |-> Strip(name), swiftCodes |-> codes]

(***************************************************************************)
(* model.py and the store: the swift_codes table is a bag of rows (the     *)
(* surrogate key id is left out; two rows with equal columns are two       *)
(* copies in the bag).                                                     *)
(***************************************************************************)
None == [none |-> TRUE]

Rows(db) == BagToSet(db)

RECURSIVE SeqToBag(_)
SeqToBag(q) == IF q = <<>> THEN EmptyBag ELSE SetToBag({Head(q)}) (+) SeqToBag(Tail(q))

\* a query without ORDER BY returns the matching rows in an order the
\* database chooses
Orderings(S) ==
    {q \in [1..Cardinality(S) -> S] : \A i, j \in 1..Cardinality(S) : i # j => q[i] # q[j]}

NoUniqueConstraint(db, pending) == FALSE

\* swiftCode = Column(String(11), unique=True): flushing the pending rows
\* raises IntegrityError when one of them repeats a stored code or the code
\* of another pending row
IntegrityError(db, pending) ==
    \/ \E i \in 1..Len(pending) : \E r \in Rows(db) : r.swiftCode = pending[i].swiftCode
    \/ \E i, j \in 1..Len(pending) : i # j /\ pending[i].swiftCode = pending[j].swiftCode
\* a commit that inserts the added rows one by one and keeps those inserted
\* before a row hits the constraint
CommitPerRow(db, pending) ==
    LET kept == {i \in 1..Len(pending) :
                    /\ \A r \in Rows(db) : r.swiftCode # pending[i].swiftCode
                    /\ \A j \in 1..(i - 1) :
                          pending[j].swiftCode # pending[i].swiftCode}
    IN  db (+) SetToBag({pending[i] : i \in kept})

\* db.commit() of a session with the pending rows added: all rows or, on an
\* IntegrityError, none
CommitAdd(db, pending) == IF IntegrityError(db, pending) THEN db ELSE db (+) SeqToBag(pending)

(***************************************************************************)
(* crud_operations.py.                                                     *)
(***************************************************************************)
\* db.query(SwiftCode).filter_by(swiftCode=swift_code).first()
get_swift_code_by_code(db, swift_code) ==
    LET found == {r \in Rows(db) : r.swiftCode = swift_code}
    IN  IF found = {} THEN None ELSE CHOOSE r \in found : TRUE

CountryNoUpper(db, country_iso2) == {r \in Rows(db) : r.countryISO2 = country_iso2}

\* db.query(SwiftCode).filter_by(countryISO2=country_iso2.upper()).all(),
\* as the set of rows the list holds
get_swift_codes_by_country(db, country_iso2) ==
    {r \in Rows(db) : r.countryISO2 = Upper(country_iso2)}

\* filter(SwiftCode.swiftCode.startswith(swift_code[:8]),
\*        SwiftCode.isHeadquarter == False).all(), as the set of rows
get_branches_for_headquarter(db, swift_code) ==
    {r \in Rows(db) : /\ ColumnStartsWith(r.swiftCode, Take(swift_code, RootLen))
                      /\ r.isHeadquarter = FALSE}

CreateOverwrite(db, data) ==
    LET same == {r \in Rows(db) : r.swiftCode = data.swiftCode}
    IN  [created |-> data, raised |-> FALSE,
         db |-> (db (-) SetToBag(same)) (+) SetToBag({data})]

\* create_swift_code: None when the code exists; otherwise add, commit and
\* return the row; raised when the commit raises IntegrityError
create_swift_code(db, data) ==
    IF get_swift_code_by_code(db, data.swiftCode) # None
    THEN [created |-> None, raised |-> FALSE, db |-> db]
    ELSE [created |-> data,
          raised  |-> IntegrityError(db, <<data>>),
          db      |-> CommitAdd(db, <<data>>)]

DeleteByRoot(db, swift_code) ==
    LET gone == {r \in Rows(db) : IsPrefix(Take(swift_code, RootLen), r.swiftCode)}
    IN  [deleted |-> gone # {}, db |-> db (-) SetToBag(gone)]

\* delete_swift_code: False when the code is unknown; otherwise delete the
\* row found, commit and return True
delete_swift_code(db, swift_code) ==
    LET existing == get_swift_code_by_code(db, swift_code)
    IN  IF existing = None
        THEN [deleted |-> FALSE, db |-> db]
        ELSE [deleted |-> TRUE, db |-> db (-) SetToBag({existing})]

\* the loop of bulk_insert_swift_codes over entries[i..]: the entries whose
\* code the store does not hold are added to the session (autoflush is off:
\* every check reads the committed rows only)
RECURSIVE BulkLoop(_, _, _)
BulkLoop(db, entries, pending) ==
    IF entries = <<>> THEN pending
    ELSE IF get_swift_code_by_code(db, Head(entries).swiftCode) = None
         THEN BulkLoop(db, Tail(entries), Append(pending, Head(entries)))
         ELSE BulkLoop(db, Tail(entries), pending)

BulkUpsert(db, entries) ==
    LET codes == {entries[i].swiftCode : i \in 1..Len(entries)}
        kept  == {r \in Rows(db) : r.swiftCode \notin codes}
        news  == {entries[i] : i \in 1..Len(entries)}
    IN  [raised |-> FALSE, count |-> Len(entries),
         db |-> SetToBag(kept) (+) SetToBag(news)]

\* bulk_insert_swift_codes: count is the number of entries added; one commit
\* at the end, which raises IntegrityError and stores nothing when two added
\* entries share a code
bulk_insert_swift_codes(db, entries) ==
    LET pending == BulkLoop(db, entries, <<>>)
    IN  [raised |-> IntegrityError(db, pending),
         count  |-> Len(pending),
         db     |-> CommitAdd(db, pending)]

(***************************************************************************)
(* parser.py.                                                              *)
(***************************************************************************)
Columns == {"SWIFT CODE", "NAME", "ADDRESS", "COUNTRY ISO2 CODE", "COUNTRY NAME"}

SuffixXXX == <<"X","X","X">>

\* row[column] raises KeyError when the sheet has no such column
RowRaises(row) == ~(Columns \subseteq DOMAIN row)

ConvertRowNoUpper(row) ==
    [swiftCode     |-> row["SWIFT CODE"],
     bankName      |-> row["NAME"],
     address       |-> row["ADDRESS"],
     countryISO2   |-> PyStr(row["COUNTRY ISO2 CODE"]),
     countryName   |-> PyStr(row["COUNTRY NAME"]),
     isHeadquarter |-> EndsWith(PyStr(row["SWIFT CODE"]), SuffixXXX)]

\* the record built from one row
ConvertRow(row) ==
    [swiftCode     |-> row["SWIFT CODE"],
     bankName      |-> row["NAME"],
     address       |-> row["ADDRESS"],
     countryISO2   |-> Upper(PyStr(row["COUNTRY ISO2 CODE"])),
     countryName   |-> Upper(PyStr(row["COUNTRY NAME"])),
     isHeadquarter |-> EndsWith(PyStr(row["SWIFT CODE"]), SuffixXXX)]

\* the loop of parse_swift_excel over the rows of the data frame: a row that
\* raises is skipped
RECURSIVE parse_swift_excel(_)
parse_swift_excel(rows) ==
    IF rows = <<>> THEN <<>>
    ELSE IF RowRaises(Head(rows))
         THEN parse_swift_excel(Tail(rows))
         ELSE <<ConvertRow(Head(rows))>> \o parse_swift_excel(Tail(rows))

SheetRow(c, b, a, i, n) ==
    [x \in Columns |->
        CASE x = "SWIFT CODE" -> c
          [] x = "NAME" -> b
          [] x = "ADDRESS" -> a
          [] x = "COUNTRY ISO2 CODE" -> i
          [] x = "COUNTRY NAME" -> n]

CodeLowX == <<"A","A","A","A","U","S","3","3","x","x","x">>

\* the rows a spreadsheet may hold
SheetRows ==
    { SheetRow(CodeHQ, BankTest, AddrWall, IsoUsLow, NameUsLow),
      SheetRow(CodeLowX, BankTest, AddrMain, IsoUsLow, NameUsLow),
      SheetRow(CodeHQ \o <<" ">>, BankOther, AddrMain, IsoPL, NamePL),
      SheetRow(CodeOther, BankOther, AddrMain, NaN, NamePL) }

SeqsUpTo(S, n) == UNION {[1..k -> S] : k \in 0..n}

WithoutColumn(rows, c) ==
    [i \in 1..Len(rows) |-> [x \in Columns \ {c} |-> rows[i][x]]]

\* the data frames read_excel may return: every row of a frame has the
\* frame's columns, and a frame may lack a column
Sheets ==
    SeqsUpTo(SheetRows, MaxRows)
    \cup {WithoutColumn(rows, "NAME") :
            rows \in SeqsUpTo({ SheetRow(CodeHQ, BankTest, AddrWall, IsoUsLow, NameUsLow),
                                SheetRow(CodeLowX, BankTest, AddrMain, IsoUsLow, NameUsLow) },
                              MaxRows) \ {<<>>}}

\* the sheets of at most one row
SmallSheets == {sheet \in Sheets : Len(sheet) <= 1}

(***************************************************************************)
(* main.py: the request handlers and the startup preload, each served as   *)
(* a whole.  last is the latest request together with its response.        *)
(***************************************************************************)
Response(op, req, status, body) ==
    [op |-> op, req |-> req, status |-> status, body |-> body]

Message(text) == [message |-> text]
Detail(text) == [detail |-> text]

\* a database session between requests
IdleSession ==
    [pc |-> "idle", req |-> <<>>, data |-> None, existing |-> None,
     stale |-> FALSE, entries |-> <<>>, pending |-> <<>>, count |-> 0]

Init ==
    /\ store = EmptyBag
    /\ last = Response("none", <<>>, 0, <<>>)
    /\ sess = [s \in Sessions |-> IdleSession]

\* POST /v1/swift-codes
add_swift_code(payload) ==
    /\ IF ValidationError(payload)
       THEN /\ store' = store
            /\ last' = Response("create", payload, 422, Detail("validation error"))
       ELSE LET r == create_swift_code(store, ModelDump(payload))
            IN  /\ store' = r.db
                /\ last' = Response("create", payload,
                               IF r.raised THEN 500
                               ELSE IF r.created = None THEN 400 ELSE 200,
                               IF r.raised THEN Detail("Internal Server Error")
                               ELSE IF r.created = None
                                    THEN Detail("SWIFT code already exists.")
                                    ELSE Message("SWIFT code added successfully."))
    /\ UNCHANGED sess

\* GET /v1/swift-codes/{swift_code}
get_swift_code(swift_code) ==
    /\ LET code == get_swift_code_by_code(store, swift_code)
       IN  IF code = None
           THEN last' = Response("get", swift_code, 404, Detail("SWIFT code not found"))
           ELSE IF code.isHeadquarter
                THEN \E branches \in Orderings(get_branches_for_headquarter(store, swift_code)) :
                        last' = Response("get", swift_code, 200,
                                    SwiftCodeWithBranches(code,
                                        [i \in 1..Len(branches) |-> SwiftCodeBranch(branches[i])]))
                ELSE last' = Response("get", swift_code, 200, SwiftCodeWithBranches(code, <<>>))
    /\ UNCHANGED <<store, sess>>

\* GET /v1/swift-codes/country/{country_iso}
get_by_country(country_iso) ==
    /\ \E records \in Orderings(get_swift_codes_by_country(store, country_iso)) :
          IF records = <<>>
          THEN last' = Response("country", country_iso, 404,
                           Detail("No SWIFT codes found for this country"))
          ELSE last' = Response("country", country_iso, 200,
                           CountrySwiftCodesResponse(Upper(country_iso),
                               records[1].countryName,
                               [i \in 1..Len(records) |-> SwiftCodeBranch(records[i])]))
    /\ UNCHANGED <<store, sess>>

\* DELETE /v1/swift-codes/{swift_code}
delete_swift_code_handler(swift_code) ==
    /\ LET r == delete_swift_code(store, swift_code)
       IN  /\ store' = r.db
           /\ last' = IF r.deleted
                      THEN Response("delete", swift_code, 200,
                               Message("SWIFT code deleted successfully."))
                      ELSE Response("delete", swift_code, 404, Detail("SWIFT code not found"))
    /\ UNCHANGED sess

\* the preload at process start: parse the sheet, validate every record,
\* bulk-insert; any exception is caught and reported
Preload(sheet) ==
    /\ LET records == parse_swift_excel(sheet)
           invalid == \E i \in 1..Len(records) : ValidationError(records[i])
           entries == [i \in 1..Len(records) |-> ModelDump(records[i])]
       IN  IF invalid
           THEN /\ store' = store
                /\ last' = Response("preload", sheet, "failed",
                               [records |-> records, count |-> 0])
           ELSE LET r == bulk_insert_swift_codes(store, entries)
                IN  /\ store' = r.db
                    /\ last' = Response("preload", sheet,
                                   IF r.raised THEN "failed" ELSE "preloaded",
                                   [records |-> records,
                                    count |-> IF r.raised THEN 0 ELSE r.count])
    /\ UNCHANGED sess

\* the service: requests served one at a time, and restarts of the process
\* with a short sheet in place
Next ==
    \/ \E payload \in Payloads : add_swift_code(payload)
    \/ \E swift_code \in Codes : get_swift_code(swift_code)
    \/ \E country_iso \in Isos : get_by_country(country_iso)
    \/ \E swift_code \in Codes : delete_swift_code_handler(swift_code)
    \/ \E sheet \in SmallSheets : Preload(sheet)

Spec == Init /\ [][Next]_vars

\* the import: restarts of the process with any sheet in place, between
\* requests that create and delete
NextImport ==
    \/ \E sheet \in Sheets : Preload(sheet)
    \/ \E swift_code \in {CodeHQ, CodeLowX} : delete_swift_code_handler(swift_code)
    \/ \E payload \in {Payload(CodeHQ, BankOther, AddrMain, IsoUsLow, NameUsLow, FALSE)} :
          add_swift_code(payload)

SpecImport == Init /\ [][NextImport]_vars

(***************************************************************************)
(* Concurrent sessions: every request has a session of its own, and the    *)
(* queries and the commit of one request interleave with those of the      *)
(* others.  A session sees the rows committed so far.                      *)
(***************************************************************************)
ConcPayloads ==
    { Payload(CodeHQ, BankTest,  AddrWall, IsoUS,    NameUS,    TRUE),
      Payload(CodeHQ, BankOther, AddrMain, IsoUsLow, NameUsLow, FALSE),
      Payload(CodeBR, BankTest,  AddrMain, IsoUS,    NameUsLow, FALSE) }

ConcCodes == {CodeHQ}

\* a sheet of one row, and one whose two rows hold the same code once
\* validation has stripped it
ConcSheets ==
    { <<SheetRow(CodeHQ, BankTest, AddrWall, IsoUsLow, NameUsLow)>>,
      <<SheetRow(CodeHQ, BankTest, AddrWall, IsoUsLow, NameUsLow),
        SheetRow(CodeHQ \o <<" ">>, BankOther, AddrMain, IsoPL, NamePL)>> }

\* create_swift_code up to the existence check (lines 52-54), after validation
CreateCheck(s, payload) ==
    /\ sess[s].pc = "idle"
    /\ IF ValidationError(payload)
       THEN /\ last' = Response("create", payload, 422, Detail("validation error"))
            /\ UNCHANGED sess
       ELSE IF get_swift_code_by_code(store, ModelDump(payload).swiftCode) # None
            THEN /\ last' = Response("create", payload, 400,
                                Detail("SWIFT code already exists."))
                 /\ UNCHANGED sess
            ELSE /\ sess' = [sess EXCEPT ![s] = [IdleSession EXCEPT
                                !.pc = "create_add", !.req = payload,
                                !.data = ModelDump(payload)]]
                 /\ UNCHANGED last
    /\ UNCHANGED store

\* create_swift_code from db.add to the return (lines 56-60): an
\* IntegrityError raised by the commit is caught nowhere, and the framework
\* answers 500
CreateCommit(s) ==
    /\ sess[s].pc = "create_add"
    /\ store' = CommitAdd(store, <<sess[s].data>>)
    /\ last' = IF IntegrityError(store, <<sess[s].data>>)
               THEN Response("create", sess[s].req, 500, Detail("Internal Server Error"))
               ELSE Response("create", sess[s].req, 200,
                        Message("SWIFT code added successfully."))
    /\ sess' = [sess EXCEPT ![s] = IdleSession]

\* delete_swift_code up to the existence check (lines 71-73)
DeleteCheck(s, swift_code) ==
    /\ sess[s].pc = "idle"
    /\ LET existing == get_swift_code_by_code(store, swift_code)
       IN  IF existing = None
           THEN /\ last' = Response("delete", swift_code, 404,
                               Detail("SWIFT code not found"))
                /\ UNCHANGED sess
           ELSE /\ sess' = [sess EXCEPT ![s] = [IdleSession EXCEPT
                               !.pc = "delete_row", !.req = swift_code,
                               !.existing = existing]]
                /\ UNCHANGED last
    /\ UNCHANGED store

\* delete_swift_code from db.delete to the return (lines 75-77).  The row is
\* deleted by its key: when another session has deleted it since the check
\* (stale), the DELETE matches no row, which the ORM reports as a warning
\* only, and a row created since with the same code is another row
DeleteCommit(s) ==
    /\ sess[s].pc = "delete_row"
    /\ store' = IF sess[s].stale THEN store
                ELSE store (-) SetToBag({sess[s].existing})
    /\ last' = Response("delete", sess[s].req, 200,
                   Message("SWIFT code deleted successfully."))
    /\ sess' = [t \in Sessions |->
                  IF t = s THEN IdleSession
                  ELSE IF sess[t].pc = "delete_row" /\ sess[t].existing = sess[s].existing
                       THEN [sess[t] EXCEPT !.stale = TRUE]
                       ELSE sess[t]]

\* the preload up to the call of bulk_insert_swift_codes
BulkStart(s, sheet) ==
    /\ sess[s].pc = "idle"
    /\ LET records == parse_swift_excel(sheet)
       IN  IF \E i \in 1..Len(records) : ValidationError(records[i])
           THEN /\ last' = Response("preload", sheet, "failed",
                               [records |-> records, count |-> 0])
                /\ UNCHANGED sess
           ELSE /\ sess' = [sess EXCEPT ![s] = [IdleSession EXCEPT
                               !.pc = "bulk_loop", !.req = sheet,
                               !.entries = [i \in 1..Len(records) |-> ModelDump(records[i])]]]
                /\ UNCHANGED last
    /\ UNCHANGED store

\* one iteration of the loop of bulk_insert_swift_codes (lines 89-92)
BulkCheck(s) ==
    /\ sess[s].pc = "bulk_loop"
    /\ sess[s].entries # <<>>
    /\ LET entry == Head(sess[s].entries)
           add   == get_swift_code_by_code(store, entry.swiftCode) = None
       IN  sess' = [sess EXCEPT ![s] = [sess[s] EXCEPT
                       !.entries = Tail(sess[s].entries),
                       !.pending = IF add THEN Append(sess[s].pending, entry)
                                   ELSE sess[s].pending,
                       !.count = IF add THEN sess[s].count + 1 ELSE sess[s].count]]
    /\ UNCHANGED <<store, last>>

\* the commit of bulk_insert_swift_codes (lines 93-94) and the end of the
\* preload, which catches the exception of a failed commit
BulkCommit(s) ==
    /\ sess[s].pc = "bulk_loop"
    /\ sess[s].entries = <<>>
    /\ store' = CommitAdd(store, sess[s].pending)
    /\ last' = IF IntegrityError(store, sess[s].pending)
               THEN Response("preload", sess[s].req, "failed",
                        [records |-> parse_swift_excel(sess[s].req), count |-> 0])
               ELSE Response("preload", sess[s].req, "preloaded",
                        [records |-> parse_swift_excel(sess[s].req),
                         count |-> sess[s].count])
    /\ sess' = [sess EXCEPT ![s] = IdleSession]

NextConc ==
    \E s \in Sessions :
        \/ \E payload \in ConcPayloads : CreateCheck(s, payload)
        \/ CreateCommit(s)
        \/ \E swift_code \in ConcCodes : DeleteCheck(s, swift_code)
        \/ DeleteCommit(s)
        \/ \E sheet \in ConcSheets : BulkStart(s, sheet)
        \/ BulkCheck(s)
        \/ BulkCommit(s)

SpecConc == Init /\ [][NextConc]_vars

(***************************************************************************)
(* Properties.                                                             *)
(***************************************************************************)
\* s without its leading and trailing whitespace, by positions
Trimmed(s) ==
    LET solid == {i \in 1..Len(s) : s[i] \notin Whitespace}
    IN  IF solid = {} THEN <<>>
        ELSE SubSeq(s, CHOOSE i \in solid : \A j \in solid : i <= j,
                       CHOOSE i \in solid : \A j \in solid : j <= i)

RowsWithCode(db, code) == {r \in Rows(db) : r.swiftCode = code}

\* the row a payload asks for, with every string trimmed
Submitted(p) ==
    [swiftCode     |-> Trimmed(p.swiftCode),
     bankName      |-> Trimmed(p.bankName),
     address       |-> Trimmed(p.address),
     countryISO2   |-> Trimmed(p.countryISO2),
     countryName   |-> Trimmed(p.countryName),
     isHeadquarter |-> p.isHeadquarter]

\* the six record fields of a get-by-code response body
BodyRecord(b) ==
    [swiftCode |-> b.swiftCode, bankName |-> b.bankName, address |-> b.address,
     countryISO2 |-> b.countryISO2, countryName |-> b.countryName,
     isHeadquarter |-> b.isHeadquarter]

\* a stored row as an entry of a branches or swiftCodes list
AsBranch(r) ==
    [swiftCode |-> r.swiftCode, bankName |-> r.bankName, address |-> r.address,
     countryISO2 |-> r.countryISO2, isHeadquarter |-> r.isHeadquarter]

Range(q) == {q[i] : i \in 1..Len(q)}

\* C2 as stated: a create whose payload passes validation succeeds when no
\* stored record has the payload's code, and otherwise answers 400 and
\* leaves the store unchanged.
C2_AsStated ==
    [][ (last'.op = "create" /\ last'.status # 422) =>
          IF RowsWithCode(store, last'.req.swiftCode) = {}
          THEN last'.status = 200
          ELSE last'.status = 400 /\ store' = store ]_vars

\* C2, amended: a create whose payload passes validation and whose code,
\* trimmed of leading and trailing whitespace, is not in the store answers
\* 200 'SWIFT code added successfully.' and adds one record; a create whose
\* trimmed code is in the store answers 400 'SWIFT code already exists.'
\* whatever its other fields and leaves the store unchanged, with exactly
\* one record for that code.
C2_DuplicateRejected ==
    [][ (last'.op = "create" /\ last'.status # 422) =>
          LET code == Trimmed(last'.req.swiftCode)
          IN  IF RowsWithCode(store, code) = {}
              THEN /\ last'.status = 200
                   /\ last'.body = Message("SWIFT code added successfully.")
                   /\ \E r \in Rows(store') :
                         r.swiftCode = code /\ store' = store (+) SetToBag({r})
              ELSE /\ last'.status = 400
                   /\ last'.body = Detail("SWIFT code already exists.")
                   /\ store' = store
                   /\ Cardinality(RowsWithCode(store', code)) = 1
                   /\ \A r \in RowsWithCode(store', code) : CopiesIn(r, store') = 1 ]_vars

\* a create was rejected as a duplicate although its other fields differ
\* from those of the stored record
C2_Witness ==
    /\ last.op = "create"
    /\ last.status = 400
    /\ \E r \in Rows(store) :
          r.swiftCode = Trimmed(last.req.swiftCode) /\ r.bankName # Trimmed(last.req.bankName)

\* C3 as stated: a successful create followed at once by get-by-code of the
\* payload's code returns the submitted field values.
C3_AsStated ==
    [][ ( /\ last.op = "create" /\ last.status = 200
          /\ last'.op = "get" /\ last'.req = last.req.swiftCode ) =>
          /\ last'.status = 200
          /\ BodyRecord(last'.body) = [f \in Fields |-> last.req[f]] ]_vars

\* C3, amended: the round trip holds of the field values trimmed of leading
\* and trailing whitespace.  A successful create stores the trimmed
\* submitted values; a stored record changes only by a delete of its code;
\* get-by-code of a stored code returns the stored values; so a successful
\* create followed by get-by-code of the trimmed code returns the trimmed
\* submitted values.
C3_RoundTrip ==
    [][ /\ (last'.op = "create" /\ last'.status = 200) =>
              Submitted(last'.req) \in Rows(store')
        /\ \A r \in Rows(store) :
              r \notin Rows(store') => last'.op = "delete" /\ last'.req = r.swiftCode
        /\ (last'.op = "get" /\ RowsWithCode(store', last'.req) # {}) =>
              /\ last'.status = 200
              /\ BodyRecord(last'.body) \in RowsWithCode(store', last'.req)
        /\ ( /\ last.op = "create" /\ last.status = 200
             /\ last'.op = "get" /\ last'.req = Trimmed(last.req.swiftCode) ) =>
              /\ last'.status = 200
              /\ BodyRecord(last'.body) = Submitted(last.req) ]_vars

\* get-by-code has returned a record that was submitted with padding
C3_Witness ==
    /\ last.op = "get"
    /\ last.status = 200
    /\ BodyRecord(last.body) = Submitted(Payload(CodePad, BankPad, AddrMain, IsoUS, NameUS, TRUE))
    /\ Cardinality(Rows(store)) > 1

\* C4: the branches list of get-by-code of a stored record R is, when R is a
\* headquarter, exactly the stored records whose code starts with the first
\* 8 characters of R's code and whose isHeadquarter is false, and is empty
\* when R is no headquarter.
C4_Branches ==
    (last.op = "get" /\ last.status = 200) =>
        \A R \in RowsWithCode(store, last.req) :
            LET root   == Take(R.swiftCode, RootLen)
                expect == IF R.isHeadquarter
                          THEN {AsBranch(r) : r \in {x \in Rows(store) :
                                    IsPrefix(root, x.swiftCode) /\ ~x.isHeadquarter}}
                          ELSE {}
            IN  /\ Range(last.body.branches) = expect
                /\ Len(last.body.branches) = Cardinality(expect)

\* C5: delete of a stored code answers 200 and removes exactly that record;
\* delete of an unknown code answers 404 and changes nothing; get-by-code
\* answers 404 exactly when no record has the code; and a code that is not
\* in the store comes into it only by a create or an import.
C5_Deletion ==
    [][ /\ last'.op = "delete" =>
              IF RowsWithCode(store, last'.req) # {}
              THEN /\ last'.status = 200
                   /\ last'.body = Message("SWIFT code deleted successfully.")
                   /\ Rows(store') = Rows(store) \ RowsWithCode(store, last'.req)
                   /\ store' = store (-) SetToBag(RowsWithCode(store, last'.req))
              ELSE /\ last'.status = 404
                   /\ store' = store
        /\ last'.op = "get" =>
              /\ store' = store
              /\ (last'.status = 404) <=> (RowsWithCode(store', last'.req) = {})
        /\ \A r \in Rows(store') :
              RowsWithCode(store, r.swiftCode) = {} =>
                  \/ last'.op = "create" /\ last'.status = 200
                  \/ last'.op = "preload" /\ last'.status = "preloaded" ]_vars

\* a delete has succeeded and has left another record with the same root
C5_Witness ==
    /\ last.op = "delete"
    /\ last.status = 200
    /\ RowsWithCode(store, last.req) = {}
    /\ \E r \in Rows(store) : IsPrefix(Take(last.req, RootLen), r.swiftCode)

\* C6: get-by-country returns exactly the stored records whose countryISO2
\* equals the upper-cased input, so an input and its upper-cased form give
\* the same result set; it answers 404 exactly when there is none, and
\* otherwise echoes the upper-cased input and the countryName of the first
\* record of the list.
C6_Country ==
    /\ \A iso \in Isos :
          get_swift_codes_by_country(store, iso) = get_swift_codes_by_country(store, Upper(iso))
    /\ last.op = "country" =>
          LET match == {r \in Rows(store) : r.countryISO2 = Upper(last.req)}
          IN  /\ (last.status = 404) <=> (match = {})
              /\ last.status \in {200, 404}
              /\ last.status = 200 =>
                    /\ Range(last.body.swiftCodes) = {AsBranch(r) : r \in match}
                    /\ Len(last.body.swiftCodes) = Cardinality(match)
                    /\ last.body.countryISO2 = Upper(last.req)
                    /\ \E r \in match : /\ AsBranch(r) = last.body.swiftCodes[1]
                                        /\ last.body.countryName = r.countryName

\* a lower-case input has matched two records whose countryName differs
C6_Witness ==
    /\ last.op = "country"
    /\ last.req = IsoUsLow
    /\ last.status = 200
    /\ Len(last.body.swiftCodes) = 2
    /\ \E r \in Rows(store) : r.countryISO2 = IsoUS /\ r.countryName # last.body.countryName

\* C7 as stated: a create payload that misses a required field or whose
\* countryISO2 has not exactly 2 characters answers 422 and changes nothing.
C7_AsStated ==
    [][ ( /\ last'.op = "create"
          /\ \/ ~(Fields \subseteq DOMAIN last'.req)
             \/ Len(last'.req.countryISO2) # IsoLen ) =>
          /\ last'.status = 422
          /\ store' = store ]_vars

\* C7, amended: a create payload that misses a required field or whose
\* countryISO2, trimmed of leading and trailing whitespace, has not exactly
\* 2 characters answers 422 and leaves the store unchanged.
C7_Malformed ==
    [][ ( /\ last'.op = "create"
          /\ \/ ~(Fields \subseteq DOMAIN last'.req)
             \/ Len(Trimmed(last'.req.countryISO2)) # IsoLen ) =>
          /\ last'.status = 422
          /\ store' = store ]_vars

\* a payload with a three-letter countryISO2 has been rejected while the
\* store holds records
C7_Witness ==
    /\ last.op = "create"
    /\ last.status = 422
    /\ Fields \subseteq DOMAIN last.req
    /\ last.req.countryISO2 = IsoUSA
    /\ store # EmptyBag

\* C8: the converter maps the convertible rows, in order, to one record
\* each, with swiftCode the code cell unchanged, countryISO2 and countryName
\* the upper-cased text of their cells, and isHeadquarter true exactly when
\* the code ends with XXX; a row that raises is left out and the rows after
\* it are still converted.
C8_Converter ==
    last.op = "preload" =>
        LET rows == last.req
            out  == last.body.records
            ok   == {i \in 1..Len(rows) : Columns \subseteq DOMAIN rows[i]}
        IN  /\ Len(out) = Cardinality(ok)
            /\ \A i \in ok :
                  LET rec  == out[Cardinality({j \in ok : j <= i})]
                      code == PyStr(rows[i]["SWIFT CODE"])
                      n    == Len(code)
                  IN  /\ DOMAIN rec = Fields
                      /\ rec.swiftCode = rows[i]["SWIFT CODE"]
                      /\ rec.countryISO2 = Upper(PyStr(rows[i]["COUNTRY ISO2 CODE"]))
                      /\ rec.countryName = Upper(PyStr(rows[i]["COUNTRY NAME"]))
                      /\ rec.isHeadquarter <=>
                            (n >= 3 /\ code[n-2] = "X" /\ code[n-1] = "X" /\ code[n] = "X")

\* a sheet of a headquarter row and a row whose code ends in lower-case xxx,
\* both with lower-case country cells, has been converted
C8_Witness ==
    /\ last.op = "preload"
    /\ Len(last.req) = 2
    /\ Len(last.body.records) = 2
    /\ last.req[1]["COUNTRY ISO2 CODE"] = IsoUsLow
    /\ last.body.records[1].countryISO2 = IsoUS
    /\ last.body.records[1].isHeadquarter
    /\ last.body.records[2].swiftCode = CodeLowX
    /\ ~last.body.records[2].isHeadquarter

\* C9: an import whose records are valid and whose codes are all in the
\* store adds nothing: count 0, the store unchanged; and an import run again
\* right after itself leaves the store as the first run left it.
C9_Idempotent ==
    [][ last'.op = "preload" =>
          LET recs  == last'.body.records
              valid == \A i \in 1..Len(recs) :
                          /\ \A f \in StringFields : recs[i][f] # NaN
                          /\ Len(Trimmed(recs[i].countryISO2)) = IsoLen
              known == \A i \in 1..Len(recs) :
                          RowsWithCode(store, Trimmed(recs[i].swiftCode)) # {}
          IN  /\ (valid /\ known) =>
                    /\ last'.status = "preloaded"
                    /\ last'.body.count = 0
                    /\ store' = store
              /\ (last.op = "preload" /\ last'.req = last.req) =>
                    /\ store' = store
                    /\ last'.body.count = 0 ]_vars

\* an import of two records has added nothing, and a stored record whose
\* code it holds has kept other field values than the import's
C9_Witness ==
    /\ last.op = "preload"
    /\ last.status = "preloaded"
    /\ last.body.count = 0
    /\ Len(last.body.records) = 2
    /\ \E r \in Rows(store) :
          /\ r.swiftCode = Trimmed(last.body.records[1].swiftCode)
          /\ r.bankName # last.body.records[1].bankName

\* C1: the store holds at most one record for any code, whatever the
\* interleaving of creates, deletes and imports.
C1_UniqueCode ==
    \A r \in Rows(store) :
        /\ CopiesIn(r, store) = 1
        /\ \A q \in Rows(store) : q.swiftCode = r.swiftCode => q = r

\* two creates of one code have both passed the existence check; the first
\* has committed and the commit of the second has hit the constraint
C1_Witness ==
    /\ last.op = "create"
    /\ last.status = 500
    /\ RowsWithCode(store, Trimmed(last.req.swiftCode)) # {}

\* C10: a create that has passed the existence check and commits when the
\* store holds its code by now answers 400 'SWIFT code already exists.'
C10_RaceIsConflict ==
    [][ \A s \in Sessions :
          ( /\ sess[s].pc = "create_add"
            /\ sess'[s].pc = "idle"
            /\ RowsWithCode(store, sess[s].data.swiftCode) # {} ) =>
              /\ last'.status = 400
              /\ last'.body = Detail("SWIFT code already exists.") ]_vars

\* C11: bulk insert is all-or-nothing.  An import of valid records whose new
\* codes are pairwise distinct returns the number of entries whose code the
\* store did not hold, and the store gains exactly those entries, one row
\* each; an import of valid records two of which share a code the store does
\* not hold fails at its only commit, returns no count, and leaves the store
\* as it was.
C11_AllOrNothing ==
    [][ last'.op = "preload" =>
          LET recs  == last'.body.records
              valid == \A i \in 1..Len(recs) :
                          /\ \A f \in StringFields : recs[i][f] # NaN
                          /\ Len(Trimmed(recs[i].countryISO2)) = IsoLen
              fresh == {i \in 1..Len(recs) :
                          RowsWithCode(store, Trimmed(recs[i].swiftCode)) = {}}
              clash == \E i, j \in fresh :
                          /\ i # j
                          /\ Trimmed(recs[i].swiftCode) = Trimmed(recs[j].swiftCode)
          IN  valid =>
                IF clash
                THEN /\ last'.status = "failed"
                     /\ last'.body.count = 0
                     /\ store' = store
                ELSE /\ last'.status = "preloaded"
                     /\ last'.body.count = Cardinality(fresh)
                     /\ BagCardinality(store') =
                           BagCardinality(store) + last'.body.count
                     /\ store' = store (+) SetToBag({Submitted(recs[i]) : i \in fresh}) ]_vars

\* an import of two valid records with one code, which the store does not
\* hold, has failed, and the rows stored before it are still all there is
C11_Witness ==
    /\ last.op = "preload"
    /\ last.status = "failed"
    /\ Len(last.body.records) = 2
    /\ \A i \in 1..2 :
          /\ \A f \in StringFields : last.body.records[i][f] # NaN
          /\ Len(Trimmed(last.body.records[i].countryISO2)) = IsoLen
    /\ last.body.records[1].swiftCode # last.body.records[2].swiftCode
    /\ Trimmed(last.body.records[1].swiftCode) = Trimmed(last.body.records[2].swiftCode)
    /\ RowsWithCode(store, Trimmed(last.body.records[1].swiftCode)) = {}
    /\ store # EmptyBag

====
